---------------------------- MODULE Spec2Model ----------------------------
(***************************************************************************)
(* Model of namelessrealms_core: the platform-rule evaluator and library   *)
(* resolver (minecraft/libraries.rs) and the launch-parameter builder      *)
(* (parameters.rs).                                                        *)
(*                                                                         *)
(* Representation of Rust values:                                          *)
(*   Option<T>   a sequence of length <= 1: << >> is None, <<x>> is Some(x)*)
(*   String      a string that is only compared is one TLA+ string; a      *)
(*               string that is built, searched or split is the sequence   *)
(*               of its pieces, and concatenation is \o                    *)
(*   Vec<T>      a sequence                                                *)
(***************************************************************************)
EXTENDS Naturals, Sequences, FiniteSets

VARIABLES host, builders, uuids, call, arg, ret

vars == <<host, builders, uuids, call, arg, ret>>

(***************************************************************************)
(* Bounds of the model.                                                    *)
(***************************************************************************)
MaxRules == 2

MaxLibs == 2

MaxArgs == 3

MaxMinor == 16

MaxBuilders == 2

(***************************************************************************)
(* Option<T>                                                               *)
(***************************************************************************)
None == << >>

Some(x) == <<x>>

is_some(o) == o # << >>

is_none(o) == o = << >>

unwrap(o) == o[1]

(***************************************************************************)
(* str::split(sep): the pieces between the occurrences of sep.  There is   *)
(* always at least one piece.                                              *)
(***************************************************************************)
RECURSIVE split(_, _)
split(s, sep) ==
    IF \A i \in 1..Len(s) : s[i] # sep
    THEN <<s>>
    ELSE LET k == CHOOSE i \in 1..Len(s) :
                      s[i] = sep /\ \A j \in 1..(i - 1) : s[j] # sep
         IN  <<SubSeq(s, 1, k - 1)>> \o split(SubSeq(s, k + 1, Len(s)), sep)

last(v) == v[Len(v)]

\* str::contains
contains(s, piece) == \E i \in 1..Len(s) : s[i] = piece

(***************************************************************************)
(* The host, as utils::get_os_type / get_os_arch / get_os_version report   *)
(* it.  It is detected, never changed.                                     *)
(***************************************************************************)
OSType == {"Windows", "MacOS", "Linux"}

OSArch == {"X86", "X86_64", "Aarch64"}

get_os_type == host.os_type

get_os_arch == host.os_arch

get_os_version == host.os_version

(***************************************************************************)
(* libraries.rs: is_rules                                                  *)
(***************************************************************************)
os_type ==
    CASE get_os_type = "Windows" -> "windows"
      [] get_os_type = "MacOS"   -> "osx"
      [] get_os_type = "Linux"   -> "linux"

os_arch ==
    CASE get_os_arch = "X86"     -> "x86"
      [] get_os_arch = "X86_64"  -> "x64"
      [] get_os_arch = "Aarch64" -> "arm"

RECURSIVE is_rules_from(_, _)
is_rules_from(rules, i) ==
    IF i > Len(rules)
    THEN TRUE
    ELSE LET rule == rules[i] IN
         IF rule.action = "allow" /\ is_some(rule.os)
                /\ is_some(unwrap(rule.os).name)
         THEN os_type = unwrap(unwrap(rule.os).name)
         ELSE IF rule.action = "allow" /\ is_some(rule.os)
                /\ is_some(unwrap(rule.os).arch)
         THEN os_arch = unwrap(unwrap(rule.os).arch)
         ELSE IF rule.action = "disallow" /\ is_some(rule.os)
                /\ is_some(unwrap(rule.os).name)
         THEN os_type # unwrap(unwrap(rule.os).name)
         ELSE is_rules_from(rules, i + 1)

\* A plausible bug: every rule with a condition must pass (the rules ANDed).
RECURSIVE is_rules_and_from(_, _)
is_rules_and_from(rules, i) ==
    IF i > Len(rules)
    THEN TRUE
    ELSE LET rule == rules[i]
             here ==
                 IF rule.action = "allow" /\ is_some(rule.os)
                        /\ is_some(unwrap(rule.os).name)
                 THEN os_type = unwrap(unwrap(rule.os).name)
                 ELSE IF rule.action = "allow" /\ is_some(rule.os)
                        /\ is_some(unwrap(rule.os).arch)
                 THEN os_arch = unwrap(unwrap(rule.os).arch)
                 ELSE IF rule.action = "disallow" /\ is_some(rule.os)
                        /\ is_some(unwrap(rule.os).name)
                 THEN os_type # unwrap(unwrap(rule.os).name)
                 ELSE TRUE
         IN  here /\ is_rules_and_from(rules, i + 1)

is_rules_accumulating(rules) == is_rules_and_from(rules, 1)

is_rules(rules) == is_rules_from(rules, 1)

(***************************************************************************)
(* libraries.rs: LibrariesJar, add_allow_libs, is_libraries                *)
(***************************************************************************)
\* global_path::combine_common_paths_absolute: the directory under the
\* common root, then the relative path.
combine_common_paths_absolute(dir, relative_path) ==
    <<"<common>", "/">> \o dir \o <<"/">> \o relative_path

LibrariesJar(type, file) ==
    [type          |-> type,
     name          |-> last(split(file.path, "/")),
     relative_path |-> file.path,
     path          |-> combine_common_paths_absolute(<<"libraries">>, file.path),
     sha1          |-> file.sha1,
     size          |-> file.size,
     download_url  |-> file.url]

\* A plausible bug: the two MacOS spellings probed in the other order.
native_file_macos_first(classifiers) ==
    CASE get_os_type = "Windows" -> classifiers.natives_windows
      [] get_os_type = "MacOS"   ->
            IF is_some(classifiers.natives_macos)
            THEN classifiers.natives_macos
            ELSE IF is_some(classifiers.natives_osx)
            THEN classifiers.natives_osx
            ELSE None
      [] get_os_type = "Linux"   -> classifiers.natives_linux

\* The classifier entry of the host.
native_file(classifiers) ==
    CASE get_os_type = "Windows" -> classifiers.natives_windows
      [] get_os_type = "MacOS"   ->
            IF is_some(classifiers.natives_osx)
            THEN classifiers.natives_osx
            ELSE IF is_some(classifiers.natives_macos)
            THEN classifiers.natives_macos
            ELSE None
      [] get_os_type = "Linux"   -> classifiers.natives_linux

\* A plausible bug: a missing host entry drops the whole descriptor, the
\* artifact entry included.
add_allow_libs_all_or_nothing(item, allow_libs) ==
    LET with_artifact ==
            IF is_some(item.downloads.artifact)
            THEN Append(allow_libs,
                        LibrariesJar(
                            IF contains(item.name, "natives")
                            THEN "Natives" ELSE "Artifact",
                            unwrap(item.downloads.artifact)))
            ELSE allow_libs
    IN  IF is_some(item.downloads.classifiers)
        THEN LET file == native_file(unwrap(item.downloads.classifiers)) IN
             IF is_none(file)
             THEN allow_libs
             ELSE Append(with_artifact, LibrariesJar("Natives", unwrap(file)))
        ELSE with_artifact

add_allow_libs(item, allow_libs) ==
    LET with_artifact ==
            IF is_some(item.downloads.artifact)
            THEN Append(allow_libs,
                        LibrariesJar(
                            IF contains(item.name, "natives")
                            THEN "Natives" ELSE "Artifact",
                            unwrap(item.downloads.artifact)))
            ELSE allow_libs
    IN  IF is_some(item.downloads.classifiers)
        THEN LET file == native_file(unwrap(item.downloads.classifiers)) IN
             IF is_none(file)
             THEN with_artifact
             ELSE Append(with_artifact, LibrariesJar("Natives", unwrap(file)))
        ELSE with_artifact

RECURSIVE is_libraries_from(_, _, _)
is_libraries_from(libraries, i, allow_libs) ==
    IF i > Len(libraries)
    THEN allow_libs
    ELSE LET lib == libraries[i] IN
         IF is_some(lib.rules) /\ ~is_rules(unwrap(lib.rules))
         THEN is_libraries_from(libraries, i + 1, allow_libs)
         ELSE is_libraries_from(libraries, i + 1, add_allow_libs(lib, allow_libs))

is_libraries(libraries) == is_libraries_from(libraries, 1, << >>)

(***************************************************************************)
(* Integers as text: format!("{}", n), and the parse that reads it back.   *)
(***************************************************************************)
DigitChars == <<"0", "1", "2", "3", "4", "5", "6", "7", "8", "9">>

RECURSIVE to_string(_)
to_string(n) ==
    IF n < 10
    THEN <<DigitChars[n + 1]>>
    ELSE to_string(n \div 10) \o <<DigitChars[(n % 10) + 1]>>

RECURSIVE parse(_)
parse(digits) ==
    IF digits = << >>
    THEN 0
    ELSE parse(SubSeq(digits, 1, Len(digits) - 1)) * 10
            + ((CHOOSE d \in 1..10 : DigitChars[d] = last(digits)) - 1)

\* Vec<String>::join
RECURSIVE join(_, _)
join(v, sep) ==
    IF v = << >> THEN << >>
    ELSE IF Len(v) = 1 THEN v[1]
    ELSE v[1] \o <<sep>> \o join(Tail(v), sep)

\* PathBuf::join, with "/" for the separator of the platform
path_join(path, component) == path \o <<"/">> \o component

get_common_dir_path == <<"<common>">>

get_instances_dir_path == <<"<instances>">>

(***************************************************************************)
(* utils::is_mc_version(threshold, version): version >= threshold, both    *)
(* read as dotted numbers, a missing component counting as 0.              *)
(***************************************************************************)
version_numbers(v) ==
    LET parts == split(v, ".") IN [i \in 1..Len(parts) |-> parse(parts[i])]

RECURSIVE numbers_at_least(_, _, _)
numbers_at_least(a, b, i) ==
    IF i > Len(a) /\ i > Len(b)
    THEN TRUE
    ELSE LET x == IF i <= Len(a) THEN a[i] ELSE 0
             y == IF i <= Len(b) THEN b[i] ELSE 0
         IN  IF x > y THEN TRUE
             ELSE IF x < y THEN FALSE
             ELSE numbers_at_least(a, b, i + 1)

is_mc_version(threshold, version) ==
    numbers_at_least(version_numbers(version), version_numbers(threshold), 1)

(***************************************************************************)
(* VersionMetadata, as parameters.rs reads it.                             *)
(***************************************************************************)
get_id(version_metadata) == version_metadata.id

get_main_class_name(version_metadata) == version_metadata.main_class_name

get_assets_index_id(version_metadata) == version_metadata.assets_index_id

get_game(version_metadata) == version_metadata.game

get_jvm(version_metadata) == version_metadata.jvm

get_client_jar(version_metadata) == version_metadata.client_jar

get_libraries(version_metadata) == version_metadata.libraries

(***************************************************************************)
(* parameters.rs: BuildParameters                                          *)
(***************************************************************************)
ram_size_max == 4096

ram_size_min == 1024

BuildParameters_new(version_metadata, uuid) ==
    [version_metadata |-> version_metadata,
     natives_dir_path |->
        path_join(path_join(get_common_dir_path, <<"bin">>),
                  split(uuid, "-")[1])]

minecraft_version(self) == get_id(self.version_metadata)

\* A plausible bug: only the Artifact entries reach the classpath.
assemble_library_path_artifacts_only(self) ==
    LET metadata_libraries ==
            SelectSeq(get_libraries(self.version_metadata),
                      LAMBDA lib : lib.type = "Artifact")
        libraries ==
            [i \in 1..Len(metadata_libraries) |-> metadata_libraries[i].path]
                \o <<get_client_jar(self.version_metadata).path>>
    IN  IF get_os_type = "Windows"
        THEN join(libraries, ";")
        ELSE join(libraries, ":")

assemble_library_path(self) ==
    LET metadata_libraries == get_libraries(self.version_metadata)
        libraries ==
            [i \in 1..Len(metadata_libraries) |-> metadata_libraries[i].path]
                \o <<get_client_jar(self.version_metadata).path>>
    IN  IF get_os_type = "Windows"
        THEN join(libraries, ";")
        ELSE join(libraries, ":")

add_os_info ==
    CASE get_os_type = "Windows" ->
            << <<"-Dos.name=", "Windows ">> \o get_os_version,
               <<"-Dos.version=">> \o get_os_version >>
      [] get_os_type = "MacOS" -> << >>
      [] get_os_type = "Linux" ->
            << <<"-Dos.name=", "Linux">>,
               <<"-Dos.version=">> \o get_os_version >>

\* A plausible bug: the disabled MacOS branch switched back on.
add_os_info_with_darwin ==
    CASE get_os_type = "Windows" ->
            << <<"-Dos.name=", "Windows ">> \o get_os_version,
               <<"-Dos.version=">> \o get_os_version >>
      [] get_os_type = "MacOS" -> << <<"-Dos.name=", "Darwin">> >>
      [] get_os_type = "Linux" ->
            << <<"-Dos.name=", "Linux">>,
               <<"-Dos.version=">> \o get_os_version >>

get_jvm_arguments_for_112_and_later_with_darwin(self) ==
    << <<"-XX:HeapDumpPath=MojangTricksIntelDriversForPerformance_javaw.exe_minecraft.exe.heapdump">> >>
    \o (IF get_os_arch = "X86" THEN << <<"-Xss1M">> >> ELSE << >>)
    \o add_os_info_with_darwin
    \o << <<"-Dminecraft.launcher.brand=mckismetlab-launcher">>,
          <<"-Dminecraft.launcher.version=0.0.1">>,
          <<"-Djava.library.path=">> \o self.natives_dir_path,
          <<"-cp">>,
          assemble_library_path(self) >>

get_jvm_arguments_for_112_and_later(self) ==
    << <<"-XX:HeapDumpPath=MojangTricksIntelDriversForPerformance_javaw.exe_minecraft.exe.heapdump">> >>
    \o (IF get_os_arch = "X86" THEN << <<"-Xss1M">> >> ELSE << >>)
    \o add_os_info
    \o << <<"-Dminecraft.launcher.brand=mckismetlab-launcher">>,
          <<"-Dminecraft.launcher.version=0.0.1">>,
          <<"-Djava.library.path=">> \o self.natives_dir_path,
          <<"-cp">>,
          assemble_library_path(self) >>

\* The value of a game placeholder: None where the match arm is `continue`.
game_value(self, key) ==
    CASE key = "${auth_player_name}" -> Some(<<"Yu_Cheng">>)
      [] key = "${version_name}" -> Some(minecraft_version(self))
      [] key = "${game_directory}" ->
            Some(path_join(get_instances_dir_path, <<"mckismetlab-main-server">>))
      [] key = "${assets_root}" -> Some(path_join(get_common_dir_path, <<"assets">>))
      [] key = "${assets_index_name}" ->
            Some(get_assets_index_id(self.version_metadata))
      [] key = "${auth_uuid}" -> Some(<<"93ea0589-ec75-4cad-8619-995164382e8d">>)
      [] key = "${auth_access_token}" -> Some(<<"null_token">>)
      [] key = "${user_type}" -> Some(<<"mojang">>)
      [] key = "${version_type}" -> Some(<<"release">>)
      [] key = "${user_properties}" -> Some(<<"{}">>)
      [] OTHER -> None

RECURSIVE minecraft_arguments_from(_, _, _)
minecraft_arguments_from(self, i, game_arguments) ==
    LET games == get_game(self.version_metadata).arguments IN
    IF i > Len(games)
    THEN game_arguments
    ELSE LET val == game_value(self, games[i].key) IN
         IF is_none(val)
         THEN minecraft_arguments_from(self, i + 1, game_arguments)
         ELSE minecraft_arguments_from(
                  self, i + 1, game_arguments \o <<games[i].name, unwrap(val)>>)

\* A plausible bug: the flag name is pushed before the key is looked up.
RECURSIVE minecraft_arguments_orphan_from(_, _, _)
minecraft_arguments_orphan_from(self, i, game_arguments) ==
    LET games == get_game(self.version_metadata).arguments IN
    IF i > Len(games)
    THEN game_arguments
    ELSE LET val == game_value(self, games[i].key) IN
         IF is_none(val)
         THEN minecraft_arguments_orphan_from(
                  self, i + 1, Append(game_arguments, games[i].name))
         ELSE minecraft_arguments_orphan_from(
                  self, i + 1, game_arguments \o <<games[i].name, unwrap(val)>>)

minecraft_arguments_orphan(self) == minecraft_arguments_orphan_from(self, 1, << >>)

minecraft_arguments(self) == minecraft_arguments_from(self, 1, << >>)

\* A plausible bug: the two memory flags in the other order.
jvm_parameters_min_first(self) ==
    << IF ram_size_min # 0
       THEN <<"-Xms">> \o to_string(ram_size_min) \o <<"M">>
       ELSE <<"-Xms", "1", "0", "2", "4", "M">>,
       IF ram_size_max # 0
       THEN <<"-Xmx">> \o to_string(ram_size_max) \o <<"M">>
       ELSE <<"-Xmx", "2", "0", "4", "8", "M">> >>

jvm_parameters(self) ==
    << IF ram_size_max # 0
       THEN <<"-Xmx">> \o to_string(ram_size_max) \o <<"M">>
       ELSE <<"-Xmx", "2", "0", "4", "8", "M">>,
       IF ram_size_min # 0
       THEN <<"-Xms">> \o to_string(ram_size_min) \o <<"M">>
       ELSE <<"-Xms", "1", "0", "2", "4", "M">> >>

\* A plausible bug: the flag name of the classpath template is kept, as for
\* the other templates, in place of the fixed -cp.
jvm_argument_named_classpath(self, jvm) ==
    CASE jvm.key = "${classpath}" -> << jvm.name, assemble_library_path(self) >>
      [] jvm.key = "${natives_directory}" ->
            << jvm.name \o <<"=">> \o self.natives_dir_path >>
      [] jvm.key = "${launcher_name}" -> << jvm.name \o <<"=", "mcKismetLab">> >>
      [] jvm.key = "${launcher_version}" -> << jvm.name \o <<"=", "v0.5.0">> >>
      [] OTHER -> << >>

\* The tokens of one templated JVM argument.
jvm_argument(self, jvm) ==
    CASE jvm.key = "${classpath}" -> << <<"-cp">>, assemble_library_path(self) >>
      [] jvm.key = "${natives_directory}" ->
            << jvm.name \o <<"=">> \o self.natives_dir_path >>
      [] jvm.key = "${launcher_name}" -> << jvm.name \o <<"=", "mcKismetLab">> >>
      [] jvm.key = "${launcher_version}" -> << jvm.name \o <<"=", "v0.5.0">> >>
      [] OTHER -> << >>

RECURSIVE jvm_arguments_from(_, _, _)
jvm_arguments_from(self, i, jvm_arguments) ==
    LET jvms == get_jvm(self.version_metadata) IN
    IF i > Len(jvms.arguments)
    THEN jvm_arguments
    ELSE jvm_arguments_from(
             self, i + 1, jvm_arguments \o jvm_argument(self, jvms.arguments[i]))

get_jvm_arguments_for_113_and_above(self) ==
    jvm_arguments_from(self, 1, get_jvm(self.version_metadata).required)

build_113above(self) ==
    get_jvm_arguments_for_113_and_above(self)
        \o jvm_parameters(self)
        \o <<get_main_class_name(self.version_metadata)>>
        \o minecraft_arguments(self)

build_112later(self) ==
    get_jvm_arguments_for_112_and_later(self)
        \o jvm_parameters(self)
        \o <<get_main_class_name(self.version_metadata)>>
        \o minecraft_arguments(self)

\* A plausible bug: the two arguments of is_mc_version exchanged.
get_java_start_parameters_swapped(self) ==
    [natives_dir_path |-> self.natives_dir_path,
     parameters |->
        IF is_mc_version(minecraft_version(self), <<"1", ".", "1", "3">>)
        THEN build_113above(self)
        ELSE build_112later(self)]

get_java_start_parameters(self) ==
    [natives_dir_path |-> self.natives_dir_path,
     parameters |->
        IF is_mc_version(<<"1", ".", "1", "3">>, minecraft_version(self))
        THEN build_113above(self)
        ELSE build_112later(self)]

(***************************************************************************)
(* Inputs.                                                                 *)
(***************************************************************************)
SeqsUpTo(S, n) == UNION {[1..k -> S] : k \in 0..n}

Hosts == [os_type : OSType, os_arch : OSArch, os_version : {<<"10", ".", "0">>}]

OsConstraints ==
    [name : {None, Some("windows"), Some("osx")},
     arch : {None, Some("x86"), Some("x64")}]

Rules == [action : {"allow", "disallow"},
          os : {None} \cup {Some(c) : c \in OsConstraints}]

RuleLists == SeqsUpTo(Rules, MaxRules)

\* One download entry per slot of a descriptor, each with its own path.
File(id) ==
    [path |-> <<"org", "/", "lwjgl", "/", id>>,
     sha1 |-> id,
     size |-> Len(<<"org", "/", "lwjgl", "/", id>>),
     url  |-> <<"https://libraries.minecraft.net/", "org", "/", "lwjgl", "/", id>>]

ClassifierKeys ==
    {{}, {"linux"}, {"macos"}, {"osx", "macos"}, {"windows", "osx"}}

Classifiers(keys) ==
    [natives_windows |-> IF "windows" \in keys
                         THEN Some(File("lwjgl-natives-windows.jar")) ELSE None,
     natives_osx     |-> IF "osx" \in keys
                         THEN Some(File("lwjgl-natives-osx.jar")) ELSE None,
     natives_macos   |-> IF "macos" \in keys
                         THEN Some(File("lwjgl-natives-macos.jar")) ELSE None,
     natives_linux   |-> IF "linux" \in keys
                         THEN Some(File("lwjgl-natives-linux.jar")) ELSE None]

Downloads ==
    [artifact    : {None, Some(File("lwjgl.jar"))},
     classifiers : {None} \cup {Some(Classifiers(k)) : k \in ClassifierKeys}]

\* No rules; the list of a library every host but MacOS takes (allow, then
\* disallow osx); the list of a Windows-only library.
LibraryRules ==
    {None,
     Some(<<[action |-> "allow", os |-> None],
            [action |-> "disallow",
             os |-> Some([name |-> Some("osx"), arch |-> None])]>>),
     Some(<<[action |-> "allow",
             os |-> Some([name |-> Some("windows"), arch |-> None])]>>)}

LibraryNames ==
    {<<"org.lwjgl", ":", "lwjgl">>,
     <<"org.lwjgl", ":", "lwjgl", ":", "natives", "-", "linux">>}

\* The name is read only beside a unified artifact: without one, one name
\* stands for all.
Libraries ==
    {lib \in [name : LibraryNames, rules : LibraryRules, downloads : Downloads] :
        is_none(lib.downloads.artifact) => ~contains(lib.name, "natives")}

LibraryLists == SeqsUpTo(Libraries, MaxLibs)

\* A version 4 UUID in text: five groups of hexadecimal digits between dashes;
\* the first and the last group are drawn here.
Uuid(first, fifth) == <<first, "-", "5e6f", "-", "4a7b", "-", "8c9d", "-", fifth>>

Uuids ==
    {Uuid(first, fifth) : first \in {"1a2b3c4d", "9f8e7d6c"},
                          fifth \in {"0123456789ab", "ba9876543210"}}

\* A version identifier: its numbers in decimal between dots.
FormatVersion(numbers) ==
    join([i \in 1..Len(numbers) |-> to_string(numbers[i])], ".")

VersionNumbers ==
    {<<major, minor>> : major \in {0, 1, 2}, minor \in 0..MaxMinor}
        \cup {<<major, minor, patch>> :
                major \in {0, 1, 2}, minor \in 0..MaxMinor, patch \in {0, 2, 10}}

GamePairs ==
    {[name |-> <<"--username">>, key |-> "${auth_player_name}"],
     [name |-> <<"--version">>, key |-> "${version_name}"],
     [name |-> <<"--gameDir">>, key |-> "${game_directory}"],
     [name |-> <<"--assetsDir">>, key |-> "${assets_root}"],
     [name |-> <<"--assetIndex">>, key |-> "${assets_index_name}"],
     [name |-> <<"--uuid">>, key |-> "${auth_uuid}"],
     [name |-> <<"--accessToken">>, key |-> "${auth_access_token}"],
     [name |-> <<"--userType">>, key |-> "${user_type}"],
     [name |-> <<"--versionType">>, key |-> "${version_type}"],
     [name |-> <<"--userProperties">>, key |-> "${user_properties}"],
     [name |-> <<"--width">>, key |-> "${resolution_width}"],
     [name |-> <<"--clientId">>, key |-> "${clientid}"]}

JvmTemplates ==
    {[name |-> <<"-Djava.library.path">>, key |-> "${natives_directory}"],
     [name |-> <<"-Dminecraft.launcher.brand">>, key |-> "${launcher_name}"],
     [name |-> <<"-Dminecraft.launcher.version">>, key |-> "${launcher_version}"],
     [name |-> <<"-classpath">>, key |-> "${classpath}"],
     [name |-> <<"-Djna.tmpdir">>, key |-> "${natives_directory}"],
     [name |-> <<"-Dlog4j.configurationFile">>, key |-> "${path}"]}

JvmRequired ==
    {<< <<"-XX:+UseG1GC">> >>,
     << <<"-XX:+UnlockExperimentalVMOptions">>, <<"-XX:+UseG1GC">> >>}

BaseMetadata ==
    [id              |-> <<"1", ".", "1", "6", ".", "5">>,
     main_class_name |-> <<"net.minecraft.client.main.Main">>,
     assets_index_id |-> <<"1", ".", "1", "6">>,
     game            |-> [arguments |->
                            <<[name |-> <<"--username">>, key |-> "${auth_player_name}"],
                              [name |-> <<"--width">>, key |-> "${resolution_width}"],
                              [name |-> <<"--version">>, key |-> "${version_name}"]>>],
     jvm             |-> [required  |-> << <<"-XX:+UseG1GC">> >>,
                          arguments |->
                            <<[name |-> <<"-Djava.library.path">>,
                               key |-> "${natives_directory}"],
                              [name |-> <<"-classpath">>, key |-> "${classpath}"]>>],
     libraries       |-> is_libraries(
                            <<[name |-> <<"org.lwjgl", ":", "lwjgl">>,
                               rules |-> None,
                               downloads |->
                                 [artifact |-> Some(File("lwjgl.jar")),
                                  classifiers |->
                                    Some(Classifiers({"linux", "windows"}))]]>>),
     client_jar      |-> [path |-> <<"<common>", "/", "versions", "/", "client.jar">>]]

\* Metadata that differs in the version identifier and the game arguments.
BuildMetadatas ==
    {[BaseMetadata EXCEPT !.id = FormatVersion(v), !.game = [arguments |-> g]] :
        v \in VersionNumbers,
        g \in {<< >>, BaseMetadata.game.arguments}}

\* Metadata that differs in the game arguments.
GameMetadatas ==
    {[BaseMetadata EXCEPT !.game = [arguments |-> g]] :
        g \in SeqsUpTo(GamePairs, MaxArgs)}

\* Metadata that differs in the modern JVM-argument block.
JvmMetadatas ==
    {[BaseMetadata EXCEPT !.jvm = [required |-> r, arguments |-> a]] :
        r \in JvmRequired \cup {<< >>}, a \in SeqsUpTo(JvmTemplates, MaxArgs)}

\* Metadata that differs in the libraries (what the resolver gives on this
\* host for a list of descriptors), of a legacy and of a modern version.
ClasspathLibraries ==
    {lib \in Libraries :
        /\ lib.rules \in {None, Some(<<[action |-> "allow",
                                        os |-> Some([name |-> Some("windows"),
                                                     arch |-> None])]>>)}
        /\ lib.downloads.classifiers \in
              {None, Some(Classifiers({"linux"})), Some(Classifiers({"windows", "osx"}))}
        /\ (lib.rules # None => lib.downloads.classifiers = None)}

ClasspathMetadatas ==
    {[BaseMetadata EXCEPT !.id = FormatVersion(v), !.libraries = is_libraries(l)] :
        v \in {<<1, 12, 2>>, <<1, 16, 5>>},
        l \in SeqsUpTo(ClasspathLibraries, MaxLibs)}

(***************************************************************************)
(* The state machine: the host is detected once; builders holds the        *)
(* BuildParameters constructed so far; every function is an                *)
(* action that records its argument and its result, and the caller then    *)
(* takes the result.                                                       *)
(***************************************************************************)
HostsX64 == {h \in Hosts : h.os_arch = "X86_64"}

Init ==
    /\ host \in Hosts
    /\ builders = << >>
    /\ uuids = << >>
    /\ call = "none"
    /\ arg = << >>
    /\ ret = << >>

IsRules ==
    /\ call = "none"
    /\ \E rules \in RuleLists :
        /\ call' = "is_rules"
        /\ arg' = rules
        /\ ret' = is_rules(rules)
        /\ UNCHANGED <<host, builders, uuids>>

IsLibraries ==
    /\ call = "none"
    /\ \E libraries \in LibraryLists :
        /\ call' = "is_libraries"
        /\ arg' = libraries
        /\ ret' = is_libraries(libraries)
        /\ UNCHANGED <<host, builders, uuids>>

\* BuildParameters::new on one of `metadatas`, while fewer than `limit`
\* builders exist.  Uuid::new_v4 is random: any UUID may come out of it, and
\* uuids remembers which one did.
New(metadatas, random, limit) ==
    /\ call = "none"
    /\ Len(builders) < limit
    /\ \E version_metadata \in metadatas, uuid \in random :
        /\ builders' = Append(builders, BuildParameters_new(version_metadata, uuid))
        /\ uuids' = Append(uuids, uuid)
        /\ call' = "new"
        /\ arg' = version_metadata
        /\ ret' = Len(builders) + 1
    /\ UNCHANGED host

GetJavaStartParameters ==
    /\ call = "none"
    /\ \E self \in DOMAIN builders :
        /\ call' = "get_java_start_parameters"
        /\ arg' = self
        /\ ret' = get_java_start_parameters(builders[self])
    /\ UNCHANGED <<host, builders, uuids>>

GetJvmArgumentsFor112AndLater ==
    /\ call = "none"
    /\ \E self \in DOMAIN builders :
        /\ call' = "get_jvm_arguments_for_112_and_later"
        /\ arg' = self
        /\ ret' = get_jvm_arguments_for_112_and_later(builders[self])
    /\ UNCHANGED <<host, builders, uuids>>

GetJvmArgumentsFor113AndAbove ==
    /\ call = "none"
    /\ \E self \in DOMAIN builders :
        /\ call' = "get_jvm_arguments_for_113_and_above"
        /\ arg' = self
        /\ ret' = get_jvm_arguments_for_113_and_above(builders[self])
    /\ UNCHANGED <<host, builders, uuids>>

MinecraftArguments ==
    /\ call = "none"
    /\ \E self \in DOMAIN builders :
        /\ call' = "minecraft_arguments"
        /\ arg' = self
        /\ ret' = minecraft_arguments(builders[self])
    /\ UNCHANGED <<host, builders, uuids>>

AssembleLibraryPath ==
    /\ call = "none"
    /\ \E self \in DOMAIN builders :
        /\ call' = "assemble_library_path"
        /\ arg' = self
        /\ ret' = assemble_library_path(builders[self])
    /\ UNCHANGED <<host, builders, uuids>>

\* The caller takes the result; the next call starts from there.
Return ==
    /\ call # "none"
    /\ call' = "none"
    /\ arg' = << >>
    /\ ret' = << >>
    /\ UNCHANGED <<host, builders, uuids>>

NextRules == IsRules \/ Return

SpecRules == Init /\ [][NextRules]_vars

NextLibraries == IsLibraries \/ Return

\* No rule of LibraryRules reads the architecture: one architecture stands
\* for all.
InitLibraries ==
    /\ host \in HostsX64
    /\ builders = << >>
    /\ uuids = << >>
    /\ call = "none"
    /\ arg = << >>
    /\ ret = << >>

SpecLibraries == InitLibraries /\ [][NextLibraries]_vars

\* One builder, built on any version, asked for its launch parameters.
NewBuild == New(BuildMetadatas, {Uuid("1a2b3c4d", "0123456789ab")}, 1)

NextBuild == NewBuild \/ GetJavaStartParameters \/ Return

SpecBuild == Init /\ [][NextBuild]_vars

\* One builder and its game arguments.
NewGame == New(GameMetadatas, {Uuid("1a2b3c4d", "0123456789ab")}, 1)

NextGame == NewGame \/ MinecraftArguments \/ Return

SpecGame == InitLibraries /\ [][NextGame]_vars

\* One builder and its modern JVM arguments.
NewJvm == New(JvmMetadatas, {Uuid("1a2b3c4d", "0123456789ab")}, 1)

NextJvm == NewJvm \/ GetJvmArgumentsFor113AndAbove \/ Return

SpecJvm == Init /\ [][NextJvm]_vars

\* One builder, its classpath and its legacy JVM arguments.
NewClasspath == New(ClasspathMetadatas, {Uuid("9f8e7d6c", "0123456789ab")}, 1)

NextClasspath ==
    \/ NewClasspath
    \/ AssembleLibraryPath
    \/ GetJvmArgumentsFor112AndLater
    \/ GetJavaStartParameters
    \/ Return

SpecClasspath == Init /\ [][NextClasspath]_vars

\* Several builders, each with its own random UUID.
NewBuilder ==
    New({BaseMetadata, [BaseMetadata EXCEPT !.id = <<"1", ".", "1", "2", ".", "2">>]},
        Uuids, MaxBuilders)

NextBuilders == NewBuilder \/ GetJavaStartParameters \/ Return

SpecBuilders == Init /\ [][NextBuilders]_vars

Next ==
    \/ IsRules
    \/ IsLibraries
    \/ NewBuilder
    \/ GetJavaStartParameters
    \/ GetJvmArgumentsFor112AndLater
    \/ GetJvmArgumentsFor113AndAbove
    \/ MinecraftArguments
    \/ AssembleLibraryPath
    \/ Return

Spec == Init /\ [][Next]_vars

(***************************************************************************)
(* C1.  is_rules returns the verdict of the first decisive rule in         *)
(* document order and ignores every later rule: allow with an OS name      *)
(* decides host.os = name; allow with an arch and no OS name decides       *)
(* host.arch = arch; disallow with an OS name decides host.os # name; any  *)
(* other rule does not decide; with no decisive rule the result is TRUE.   *)
(***************************************************************************)
HostOsIs(name) ==
    \/ host.os_type = "Windows" /\ name = "windows"
    \/ host.os_type = "MacOS" /\ name = "osx"
    \/ host.os_type = "Linux" /\ name = "linux"

HostArchIs(arch) ==
    \/ host.os_arch = "X86" /\ arch = "x86"
    \/ host.os_arch = "X86_64" /\ arch = "x64"
    \/ host.os_arch = "Aarch64" /\ arch = "arm"

HasName(rule) == rule.os # << >> /\ rule.os[1].name # << >>

HasArch(rule) == rule.os # << >> /\ rule.os[1].arch # << >>

Decides(rule) ==
    \/ rule.action = "allow" /\ (HasName(rule) \/ HasArch(rule))
    \/ rule.action = "disallow" /\ HasName(rule)

Verdict(rule) ==
    IF rule.action = "allow"
    THEN IF HasName(rule)
         THEN HostOsIs(rule.os[1].name[1])
         ELSE HostArchIs(rule.os[1].arch[1])
    ELSE ~HostOsIs(rule.os[1].name[1])

FirstDecisive(rules) ==
    {i \in 1..Len(rules) :
        Decides(rules[i]) /\ \A j \in 1..(i - 1) : ~Decides(rules[j])}

Applies(rules) == \A i \in FirstDecisive(rules) : Verdict(rules[i])

\* C1: the result of is_rules is the verdict of the first decisive rule of its
\* argument, and TRUE when no rule decides.
C1_FirstDecisiveRuleWins == call = "is_rules" => ret = Applies(arg)

\* Two decisive rules that disagree, the first one true and the second false
\* (the AND of the rules is false), and a rule that does not decide before
\* them.
C1_Witness ==
    /\ call = "is_rules"
    /\ \E i, j \in 1..Len(arg) :
        /\ i < j
        /\ Decides(arg[i]) /\ Decides(arg[j])
        /\ Verdict(arg[i]) /\ ~Verdict(arg[j])
        /\ \A k \in 1..(i - 1) : ~Decides(arg[k])
    /\ ret = TRUE

(***************************************************************************)
(* C2.  is_libraries is the concatenation, in input order, of what each    *)
(* descriptor emits: nothing when it carries rules that evaluate to false; *)
(* otherwise first one entry for its unified artifact if present (Natives  *)
(* when the logical name contains "natives", else Artifact) and then,      *)
(* independently, one Natives entry for the classifier entry of the host   *)
(* if there is one.  A missing host entry emits nothing and keeps the      *)
(* artifact entry.  At most two entries per descriptor.                    *)
(***************************************************************************)
\* What an emitted entry says of its origin: its kind and its download entry.
Origin(jar) ==
    [kind |-> jar.type,
     file |-> [path |-> jar.relative_path, sha1 |-> jar.sha1,
               size |-> jar.size, url |-> jar.download_url]]

Origins(jars) == [i \in 1..Len(jars) |-> Origin(jars[i])]

\* The classifier entries that match the host, under either MacOS spelling.
HostEntries(c) ==
    CASE host.os_type = "Windows" -> {c.natives_windows} \ {<< >>}
      [] host.os_type = "Linux"   -> {c.natives_linux} \ {<< >>}
      [] host.os_type = "MacOS"   -> {c.natives_osx, c.natives_macos} \ {<< >>}

ArtifactPart(d) ==
    IF d.downloads.artifact = << >>
    THEN << >>
    ELSE <<[kind |-> IF \E i \in DOMAIN d.name : d.name[i] = "natives"
                     THEN "Natives" ELSE "Artifact",
            file |-> d.downloads.artifact[1]]>>

NativeParts(d) ==
    IF d.downloads.classifiers = << >> \/ HostEntries(d.downloads.classifiers[1]) = {}
    THEN {<< >>}
    ELSE {<<[kind |-> "Natives", file |-> e[1]]>> :
             e \in HostEntries(d.downloads.classifiers[1])}

Emissions(d) ==
    IF d.rules # << >> /\ ~Applies(d.rules[1])
    THEN {<< >>}
    ELSE {ArtifactPart(d) \o n : n \in NativeParts(d)}

RECURSIVE Resolutions(_)
Resolutions(descriptors) ==
    IF descriptors = << >>
    THEN {<< >>}
    ELSE {e \o r : e \in Emissions(Head(descriptors)),
                   r \in Resolutions(Tail(descriptors))}

\* C2: the result of is_libraries is the concatenation, in input order, of one
\* allowed emission per descriptor, at most two entries each.
C2_ResolveIsConcatenation ==
    call = "is_libraries" =>
        /\ Origins(ret) \in Resolutions(arg)
        /\ Len(ret) <= 2 * Len(arg)

\* A descriptor with an artifact and no classifier entry for the host (the
\* artifact entry stays), then one that emits both an artifact and a native.
C2_Witness ==
    /\ call = "is_libraries"
    /\ \E i, j \in 1..Len(arg) :
        /\ i < j
        /\ arg[i].rules = << >>
        /\ arg[i].downloads.artifact # << >>
        /\ arg[i].downloads.classifiers # << >>
        /\ HostEntries(arg[i].downloads.classifiers[1]) = {}
        /\ Emissions(arg[j]) # {<< >>}
        /\ \A e \in Emissions(arg[j]) : Len(e) = 2
    /\ Len(ret) = 3

(***************************************************************************)
(* C8.  On a MacOS host the classifier map is probed under two spellings.  *)
(* As claimed: macos first, then osx.  As the code has it: osx first, then *)
(* macos; with only one present that one is used, with neither no native   *)
(* entry is emitted.                                                       *)
(***************************************************************************)
Preferred(c, first, second) ==
    IF first # << >> THEN first ELSE second

MacEmission(d, macos_first) ==
    IF d.rules # << >> /\ ~Applies(d.rules[1])
    THEN << >>
    ELSE ArtifactPart(d) \o
         (IF d.downloads.classifiers = << >>
          THEN << >>
          ELSE LET c == d.downloads.classifiers[1]
                   e == IF macos_first
                        THEN Preferred(c, c.natives_macos, c.natives_osx)
                        ELSE Preferred(c, c.natives_osx, c.natives_macos)
               IN  IF e = << >> THEN << >>
                   ELSE <<[kind |-> "Natives", file |-> e[1]]>>)

RECURSIVE MacResolution(_, _)
MacResolution(descriptors, macos_first) ==
    IF descriptors = << >>
    THEN << >>
    ELSE MacEmission(Head(descriptors), macos_first)
            \o MacResolution(Tail(descriptors), macos_first)

\* C8, as claimed: on MacOS the native entry comes from natives_macos when it is
\* present, else from natives_osx.
C8_MacosSpellingFirst ==
    (call = "is_libraries" /\ host.os_type = "MacOS") =>
        Origins(ret) = MacResolution(arg, TRUE)

\* C8, amended: on MacOS the native entry comes from natives_osx when it is
\* present, else from natives_macos.
C8_OsxSpellingFirst ==
    (call = "is_libraries" /\ host.os_type = "MacOS") =>
        Origins(ret) = MacResolution(arg, FALSE)

\* A descriptor with both spellings resolved on MacOS: the osx entry is in
\* the result and the macos entry is not.
C8_Witness ==
    /\ call = "is_libraries"
    /\ host.os_type = "MacOS"
    /\ \E i \in 1..Len(arg) :
        /\ arg[i].downloads.classifiers # << >>
        /\ arg[i].downloads.classifiers[1].natives_osx # << >>
        /\ arg[i].downloads.classifiers[1].natives_macos # << >>
    /\ \E k \in 1..Len(ret) : ret[k].name = <<"lwjgl-natives-osx.jar">>
    /\ \A k \in 1..Len(ret) : ret[k].name # <<"lwjgl-natives-macos.jar">>

(***************************************************************************)
(* C3.  get_java_start_parameters compares the version identifier with     *)
(* "1.13" as dotted numbers: a version at or above 1.13 yields the modern  *)
(* token sequence, a version below yields the legacy one, and never both.  *)
(***************************************************************************)
HeapDumpFlag ==
    <<"-XX:HeapDumpPath=MojangTricksIntelDriversForPerformance_javaw.exe_minecraft.exe.heapdump">>

\* The legacy sequence starts with the fixed heap-dump flag, the modern one
\* with the metadata's required flags (never empty in BuildMetadatas).
IsLegacySequence(parameters) == parameters[1] = HeapDumpFlag

IsModernSequence(parameters, version_metadata) ==
    LET required == version_metadata.jvm.required IN
    /\ required # << >>
    /\ Len(parameters) >= Len(required)
    /\ SubSeq(parameters, 1, Len(required)) = required

AtLeast_1_13(numbers) ==
    numbers[1] > 1 \/ (numbers[1] = 1 /\ numbers[2] >= 13)

\* C3: the build of a version given by `numbers` is the modern sequence iff
\* numbers >= (1, 13), and the legacy sequence iff not.
C3_SchemaByDottedNumbers ==
    call = "get_java_start_parameters" =>
        LET version_metadata == builders[arg].version_metadata IN
        \A numbers \in VersionNumbers :
            version_metadata.id = FormatVersion(numbers) =>
                /\ IsModernSequence(ret.parameters, version_metadata)
                        <=> AtLeast_1_13(numbers)
                /\ IsLegacySequence(ret.parameters) <=> ~AtLeast_1_13(numbers)

\* "1.9" is below "1.13" as numbers and above it as text: it builds the
\* legacy sequence.
C3_Witness ==
    /\ call = "get_java_start_parameters"
    /\ builders[arg].version_metadata.id = <<"1", ".", "9">>
    /\ IsLegacySequence(ret.parameters)
    /\ ~IsModernSequence(ret.parameters, builders[arg].version_metadata)

(***************************************************************************)
(* C4.  The legacy JVM-flag prefix is, in this order: the heap-dump flag;  *)
(* -Xss1M iff the host is 32-bit X86; the os.name then the os.version      *)
(* property iff the host is Windows or Linux; the launcher brand; the      *)
(* launcher version; java.library.path set to the builder's natives        *)
(* directory; -cp; the assembled classpath.  On MacOS no token of the      *)
(* legacy output is an os.name or os.version property.                     *)
(***************************************************************************)
IsOsProperty(token) == token[1] \in {"-Dos.name=", "-Dos.version="}

\* C4: the tokens of get_jvm_arguments_for_112_and_later, position by position,
\* and no os.name or os.version property in a legacy build on MacOS.
C4_LegacyPrefixOrder ==
    /\ call = "get_jvm_arguments_for_112_and_later" =>
        LET self == builders[arg]
            stack == IF host.os_arch = "X86" THEN 1 ELSE 0
            os == IF host.os_type \in {"Windows", "Linux"} THEN 2 ELSE 0
            rest == 1 + stack + os
        IN  /\ Len(ret) = rest + 5
            /\ ret[1] = HeapDumpFlag
            /\ stack = 1 => ret[2] = <<"-Xss1M">>
            /\ os = 2 => /\ ret[rest - 1][1] = "-Dos.name="
                         /\ ret[rest][1] = "-Dos.version="
            /\ ret[rest + 1] = <<"-Dminecraft.launcher.brand=mckismetlab-launcher">>
            /\ ret[rest + 2] = <<"-Dminecraft.launcher.version=0.0.1">>
            /\ ret[rest + 3] = <<"-Djava.library.path=">> \o self.natives_dir_path
            /\ ret[rest + 4] = <<"-cp">>
            /\ ret[rest + 5] = assemble_library_path(self)
            /\ \A i \in 1..Len(ret) :
                    IsOsProperty(ret[i]) => os = 2 /\ i \in {rest - 1, rest}
    /\ (/\ call = "get_java_start_parameters"
        /\ IsLegacySequence(ret.parameters)
        /\ host.os_type = "MacOS") =>
            \A i \in 1..Len(ret.parameters) : ~IsOsProperty(ret.parameters[i])

\* A legacy build on a MacOS host.
C4_Witness ==
    /\ call = "get_java_start_parameters"
    /\ IsLegacySequence(ret.parameters)
    /\ host.os_type = "MacOS"
    /\ host.os_arch = "X86"
    /\ ret.parameters[2] = <<"-Xss1M">>
    /\ ret.parameters[3] = <<"-Dminecraft.launcher.brand=mckismetlab-launcher">>

(***************************************************************************)
(* C5.  minecraft_arguments emits, for every (flag name, placeholder key)  *)
(* pair in metadata order, the flag name then the substituted value when   *)
(* the key is one of the ten recognized placeholders, and nothing when it  *)
(* is not: the list has even length, every token at an even offset is a    *)
(* flag name followed by its value, and no flag name of an unrecognized    *)
(* pair appears.                                                           *)
(***************************************************************************)
RecognizedKeys ==
    {"${auth_player_name}", "${version_name}", "${game_directory}",
     "${assets_root}", "${assets_index_name}", "${auth_uuid}",
     "${auth_access_token}", "${user_type}", "${version_type}",
     "${user_properties}"}

Substituted(self, key) ==
    IF key = "${auth_player_name}" THEN <<"Yu_Cheng">>
    ELSE IF key = "${version_name}" THEN self.version_metadata.id
    ELSE IF key = "${game_directory}"
    THEN <<"<instances>", "/", "mckismetlab-main-server">>
    ELSE IF key = "${assets_root}" THEN <<"<common>", "/", "assets">>
    ELSE IF key = "${assets_index_name}" THEN self.version_metadata.assets_index_id
    ELSE IF key = "${auth_uuid}" THEN <<"93ea0589-ec75-4cad-8619-995164382e8d">>
    ELSE IF key = "${auth_access_token}" THEN <<"null_token">>
    ELSE IF key = "${user_type}" THEN <<"mojang">>
    ELSE IF key = "${version_type}" THEN <<"release">>
    ELSE <<"{}">>

\* C5: the result of minecraft_arguments is, pair by pair, the flag name and the
\* value of each recognized pair, and no token of an unrecognized pair.
C5_GameArgumentsInPairs ==
    call = "minecraft_arguments" =>
        LET self == builders[arg]
            pairs == self.version_metadata.game.arguments
            recognized == SelectSeq(pairs, LAMBDA g : g.key \in RecognizedKeys)
        IN  /\ Len(ret) = 2 * Len(recognized)
            /\ \A i \in 1..Len(recognized) :
                /\ ret[2 * i - 1] = recognized[i].name
                /\ ret[2 * i] = Substituted(self, recognized[i].key)
            /\ \A i \in 1..Len(pairs) :
                pairs[i].key \notin RecognizedKeys =>
                    \A k \in 1..Len(ret) : ret[k] # pairs[i].name

\* An unrecognized pair between two recognized ones.
C5_Witness ==
    /\ call = "minecraft_arguments"
    /\ LET pairs == builders[arg].version_metadata.game.arguments IN
        /\ Len(pairs) = 3
        /\ pairs[1].key \in RecognizedKeys
        /\ pairs[2].key \notin RecognizedKeys
        /\ pairs[3].key \in RecognizedKeys
    /\ Len(ret) = 4

(***************************************************************************)
(* C6.  The classpath is the absolute path of every resolved library       *)
(* entry, Artifact and Natives alike, in resolver emission order, then the *)
(* client jar's path, joined with ";" on Windows and ":" elsewhere.  With  *)
(* no library it is the client jar's path.                                 *)
(***************************************************************************)
\* C6: split at the separator of the host, the classpath is the path of every
\* library entry in order, then the client jar's path.
C6_ClasspathOrder ==
    call = "assemble_library_path" =>
        LET version_metadata == builders[arg].version_metadata
            resolved == version_metadata.libraries
            separator == IF host.os_type = "Windows" THEN ";" ELSE ":"
            other == IF host.os_type = "Windows" THEN ":" ELSE ";"
            elements == split(ret, separator)
        IN  /\ Len(elements) = Len(resolved) + 1
            /\ \A i \in 1..Len(resolved) :
                elements[i] = resolved[i].path
            /\ elements[Len(elements)] = version_metadata.client_jar.path
            /\ \A i \in 1..Len(ret) : ret[i] # other
            /\ resolved = << >> => ret = version_metadata.client_jar.path

\* On Windows, an Artifact and a Natives entry ahead of the client jar.
C6_Witness ==
    /\ call = "assemble_library_path"
    /\ host.os_type = "Windows"
    /\ LET resolved == builders[arg].version_metadata.libraries IN
        /\ \E i \in 1..Len(resolved) : resolved[i].type = "Artifact"
        /\ \E i \in 1..Len(resolved) : resolved[i].type = "Natives"
        /\ Len(split(ret, ";")) = Len(resolved) + 1

(***************************************************************************)
(* C7.  Any two independently constructed builders have different          *)
(* native-directory paths; the path is fixed at construction and is the    *)
(* one every build on that instance returns.                               *)
(***************************************************************************)
\* C7: two builders never share a native-directory path (even with the UUIDs
\* themselves taken to differ), and a build returns the path of its builder.
C7_DistinctNativeDirectories ==
    /\ \A i, j \in DOMAIN builders :
        (i # j /\ uuids[i] # uuids[j]) =>
            builders[i].natives_dir_path # builders[j].natives_dir_path
    /\ call = "get_java_start_parameters" =>
        ret.natives_dir_path = builders[arg].natives_dir_path

(***************************************************************************)
(* C9.  The modern JVM-flag prefix is every required flag of the metadata, *)
(* verbatim and in order, then the expansion of each templated argument in *)
(* order: ${classpath} is -cp and the classpath; ${natives_directory},     *)
(* ${launcher_name} and ${launcher_version} are one token name=value; any  *)
(* other key is no token.                                                  *)
(***************************************************************************)
Expansion(self, template) ==
    IF template.key = "${classpath}"
    THEN << <<"-cp">>, assemble_library_path(self) >>
    ELSE IF template.key = "${natives_directory}"
    THEN << template.name \o <<"=">> \o self.natives_dir_path >>
    ELSE IF template.key = "${launcher_name}"
    THEN << template.name \o <<"=", "mcKismetLab">> >>
    ELSE IF template.key = "${launcher_version}"
    THEN << template.name \o <<"=", "v0.5.0">> >>
    ELSE << >>

RECURSIVE Expansions(_, _)
Expansions(self, templates) ==
    IF templates = << >>
    THEN << >>
    ELSE Expansion(self, Head(templates)) \o Expansions(self, Tail(templates))

\* C9: the result of get_jvm_arguments_for_113_and_above is the required flags,
\* then the expansion of each template in order.
C9_ModernPrefix ==
    call = "get_jvm_arguments_for_113_and_above" =>
        LET self == builders[arg]
            jvm == self.version_metadata.jvm
        IN  ret = jvm.required \o Expansions(self, jvm.arguments)

\* Required flags, then a dropped template between the classpath and a
\* name=value template.
C9_Witness ==
    /\ call = "get_jvm_arguments_for_113_and_above"
    /\ LET jvm == builders[arg].version_metadata.jvm IN
        /\ Len(jvm.required) = 2
        /\ Len(jvm.arguments) = 3
        /\ jvm.arguments[1].key = "${classpath}"
        /\ jvm.arguments[2].key = "${path}"
        /\ jvm.arguments[3].key = "${launcher_name}"
    /\ Len(ret) = 5
    /\ ret[3] = <<"-cp">>
    /\ ret[5] = <<"-Dminecraft.launcher.brand", "=", "mcKismetLab">>

(***************************************************************************)
(* C10.  In both schemas the JVM-flag prefix is followed by exactly two    *)
(* memory tokens, -Xmx<max>M then -Xms<min>M, then the main class, then    *)
(* the game arguments, and nothing else.  A configured value of 0 is       *)
(* replaced by its default, 2048 for max and 1024 for min.                 *)
(***************************************************************************)
MemoryToken(flag, configured, default) ==
    <<flag>> \o to_string(IF configured = 0 THEN default ELSE configured) \o <<"M">>

=============================================================================
